---- MODULE Spec2Model ----
(***************************************************************************)
(* linproj: the native binding of the generalized symmetric-definite       *)
(* eigenvalue solver.                                                      *)
(*                                                                         *)
(*   src/src/LDA.c           dsygvx_c, the shim that fixes the solver's    *)
(*                           configuration and forwards to LAPACK dsygvx   *)
(*   src/src/linproj_init.c  CEntries and R_init_linproj, the registration *)
(*                           of the shim with the host's loader            *)
(*                                                                         *)
(* The host loads the module (R_init_linproj), resolves "dsygvx_c" and     *)
(* then invokes it from invocation contexts that may interleave. Each      *)
(* invocation runs the shim's three steps: the initialisation of its       *)
(* locals, the F77 call, and the return.                                   *)
(*                                                                         *)
(* The external routine is not part of the repository. It is an oracle:    *)
(* what it writes for a given call is arbitrary, but the same call gets    *)
(* the same answer every time (memo). The contents of a, b, work, iwork    *)
(* and ifail after the call are the routine's and are not tracked.         *)
(***************************************************************************)
EXTENDS Integers, Sequences, FiniteSets, TLC

\* ---------------------------------------------------------------- bounds
\* Small problem sizes and lower indices run over 0..MaxN.
MaxN == 1
\* Invocations of the shim in one behaviour.
MaxCalls == 2

\* -------------------------------------------------------- the C int type
\* INT_MAX of the 32-bit signed int that n, il and lwork are held in.
IntMax == 2147483647
IntMin == -IntMax - 1
TwoPow28 == (IntMax \div 8) + 1
TwoPow29 == 2 * TwoPow28

\* 8 * n does not fit an int.
Overflows8(n) == n > IntMax \div 8 \/ n < IntMin \div 8

\* 8 * n reduced modulo 2^32 into the int range (what a wrapping build
\* leaves in lwork); computed without leaving the int range.
Mul8Wrap(n) ==
    LET r == n % TwoPow29
    IN  IF r < TwoPow28 THEN 8 * r ELSE 8 * (r - TwoPow29)

\* The outcomes of `int lwork = 8 * (*n)`. Signed overflow is undefined:
\* the build either wraps or traps.
Value(v) == [trap |-> FALSE, val |-> v]
Trap == [trap |-> TRUE, val |-> 0]
LworkOutcomes(n) ==
    IF Overflows8(n) THEN {Value(Mul8Wrap(n)), Trap} ELSE {Value(8 * n)}

\* ------------------------------------------------------------ the inputs
Contexts == {1, 2}
\* Problem sizes: small ones, and the two around the largest n whose 8 * n
\* fits an int.
NVals == (0 .. MaxN) \cup {IntMax \div 8, TwoPow28}
IlVals == 0 .. MaxN
\* The matrix buffers are opaque to the shim: a and b name the caller's two
\* buffers.
Args == [n : NVals, il : IlVals, a : {"A"}, b : {"B"}]

\* The caller's output buffers before the call.
Stale == [m |-> 0, w |-> 0, z |-> 0, info |-> 0]
\* What the external routine may leave in m, w, z and info.
ExtOutputs == [m : {1}, w : {1}, z : {1}, info : {-1, 0, 1}]

NoArgs == [n |-> 0, il |-> 0, a |-> "", b |-> ""]
NoLocals == [itype |-> 0, jobz |-> "", range |-> "", uplo |-> "",
             vl |-> 0, vu |-> 0, abstol |-> "", lwork |-> 0]
NoCall == [made |-> FALSE]

\* ------------------------------------------------- the registration table
\* The symbols the compiled module exports: the non-static functions.
ExportedSymbols == {"dsygvx_c", "R_init_linproj"}
\* Names the host may look up.
Names == ExportedSymbols \cup {"CEntries", "dsygvx_"}

NullEntry == [name |-> "NULL", fun |-> "NULL", numArgs |-> 0]
CEntriesWrongArity ==
    << [name |-> "dsygvx_c", fun |-> "dsygvx_c", numArgs |-> 10], NullEntry >>
CEntries ==
    << [name |-> "dsygvx_c", fun |-> "dsygvx_c", numArgs |-> 11], NullEntry >>

\* R_registerRoutines: the entries before the NULL terminator.
RECURSIVE UpToNull(_)
UpToNull(tab) ==
    IF tab = << >> \/ Head(tab).name = "NULL" THEN << >>
    ELSE << Head(tab) >> \o UpToNull(Tail(tab))

\* R_useDynamicSymbols(dll, FALSE).
UseDynamicSymbolsArg == FALSE

\* The host's resolution of a name in the loaded module: the registered
\* routines first, the dynamic-lookup path only when it is enabled.
Resolve(d, name) ==
    IF \E i \in 1 .. Len(d.cRoutines) : d.cRoutines[i].name = name
    THEN LET i == CHOOSE j \in 1 .. Len(d.cRoutines) : d.cRoutines[j].name = name
         IN  [found |-> TRUE, fun |-> d.cRoutines[i].fun,
              numArgs |-> d.cRoutines[i].numArgs, path |-> "registered"]
    ELSE IF d.useDynamicSymbols /\ name \in ExportedSymbols
    THEN [found |-> TRUE, fun |-> name, numArgs |-> -1, path |-> "dynamic"]
    ELSE [found |-> FALSE, fun |-> "NULL", numArgs |-> -1, path |-> "none"]

\* ----------------------------------------------------------------- state
VARIABLES
    dll,      \* the module's entry in the host's loader
    loaded,   \* R_init_linproj has run
    pc,       \* per context: idle, locals, call, ret, done
    args,     \* per context: what the caller passed (n, il, a, b)
    buf,      \* per context: the caller's m, w, z, info
    frame,    \* per storage slot: the shim's locals
    call,     \* per context: the call handed to the external routine
    memo,     \* the external routine's answers so far, per call
    results,  \* what the host has read back: (ctx, args, out)
    trapped,  \* the process was aborted by an overflow trap
    ncalls    \* invocations so far

vars == << dll, loaded, pc, args, buf, frame, call, memo, results, trapped, ncalls >>

\* Where the locals of context c live: automatic storage, one frame per
\* invocation.
FrameStatic(c) == 1
Frame(c) == c

Init ==
    /\ dll = [cRoutines |-> << >>, useDynamicSymbols |-> TRUE]
    /\ loaded = FALSE
    /\ pc = [c \in Contexts |-> "idle"]
    /\ args = [c \in Contexts |-> NoArgs]
    /\ buf = [c \in Contexts |-> Stale]
    /\ frame = [c \in Contexts |-> NoLocals]
    /\ call = [c \in Contexts |-> NoCall]
    /\ memo = << >>
    /\ results = {}
    /\ trapped = FALSE
    /\ ncalls = 0

\* R_init_linproj: register CEntries, then switch dynamic lookup off.
R_init_linproj ==
    /\ ~loaded
    /\ dll' = [cRoutines |-> UpToNull(CEntries),
               useDynamicSymbols |-> UseDynamicSymbolsArg]
    /\ loaded' = TRUE
    /\ UNCHANGED << pc, args, buf, frame, call, memo, results, trapped, ncalls >>

\* The host resolves "dsygvx_c" and enters the shim with the caller's
\* eleven arguments.
Invoke(c) ==
    /\ loaded /\ ~trapped
    /\ pc[c] = "idle"
    /\ ncalls < MaxCalls
    /\ LET r == Resolve(dll, "dsygvx_c")
       IN  r.found /\ r.fun = "dsygvx_c" /\ r.numArgs \in {-1, 11}
    /\ \E x \in Args :
          args' = [args EXCEPT ![c] = x]
    /\ pc' = [pc EXCEPT ![c] = "locals"]
    /\ ncalls' = ncalls + 1
    /\ UNCHANGED << dll, loaded, buf, frame, call, memo, results, trapped >>

\* Lines 13-23: the shim's locals, given what line 23 left in lwork.
Locals(lw) ==
    [itype |-> 1, jobz |-> "V", range |-> "I", uplo |-> "U",
     vl |-> 0, vu |-> 0, abstol |-> "1e-5", lwork |-> lw]

\* Lines 13-23: the locals, lwork = 8 * n where that fits an int.
InitLocals(c) ==
    /\ ~trapped
    /\ pc[c] = "locals"
    /\ \E lw \in LworkOutcomes(args[c].n) :
          /\ ~lw.trap
          /\ frame' = [frame EXCEPT ![Frame(c)] = Locals(lw.val)]
    /\ pc' = [pc EXCEPT ![c] = "call"]
    /\ UNCHANGED << dll, loaded, args, buf, call, memo, results, trapped, ncalls >>

\* Line 23 on a trapping build: the overflow aborts the process.
OverflowTrap(c) ==
    /\ ~trapped
    /\ pc[c] = "locals"
    /\ Trap \in LworkOutcomes(args[c].n)
    /\ trapped' = TRUE
    /\ UNCHANGED << dll, loaded, pc, args, buf, frame, call, memo, results, ncalls >>

\* Lines 25-35: the arguments of F77_CALL(dsygvx), in order.
ForwardedCallIuIsIl(x, f) ==
    [made |-> TRUE,
     itype |-> f.itype, jobz |-> f.jobz, range |-> f.range, uplo |-> f.uplo,
     n |-> x.n, a |-> x.a, lda |-> x.n, b |-> x.b, ldb |-> x.n,
     vl |-> f.vl, vu |-> f.vu, il |-> x.il, iu |-> x.il,
     abstol |-> f.abstol, ldz |-> x.n, lwork |-> f.lwork]
ForwardedCallLower(x, f) ==
    [made |-> TRUE,
     itype |-> f.itype, jobz |-> f.jobz, range |-> f.range, uplo |-> "L",
     n |-> x.n, a |-> x.a, lda |-> x.n, b |-> x.b, ldb |-> x.n,
     vl |-> f.vl, vu |-> f.vu, il |-> x.il, iu |-> x.n,
     abstol |-> f.abstol, ldz |-> x.n, lwork |-> f.lwork]
ForwardedCall(x, f) ==
    [made |-> TRUE,
     itype |-> f.itype, jobz |-> f.jobz, range |-> f.range, uplo |-> f.uplo,
     n |-> x.n, a |-> x.a, lda |-> x.n, b |-> x.b, ldb |-> x.n,
     vl |-> f.vl, vu |-> f.vu, il |-> x.il, iu |-> x.n,
     abstol |-> f.abstol, ldz |-> x.n, lwork |-> f.lwork]

\* Lines 25-35: the blocking call. The routine answers a call it has seen
\* as it answered before, and any other call arbitrarily.
Dsygvx(c) ==
    /\ ~trapped
    /\ pc[c] = "call"
    /\ LET k == ForwardedCall(args[c], frame[Frame(c)])
       IN  /\ call' = [call EXCEPT ![c] = k]
           /\ \E o \in ExtOutputs :
                 /\ k \in DOMAIN memo => o = memo[k]
                 /\ memo' = IF k \in DOMAIN memo THEN memo ELSE memo @@ (k :> o)
                 /\ buf' = [buf EXCEPT ![c] = o]
    /\ pc' = [pc EXCEPT ![c] = "ret"]
    /\ UNCHANGED << dll, loaded, args, frame, results, trapped, ncalls >>

\* Line 36: the shim returns; it touches nothing after the call, and its
\* locals die with its frame.
ReturnClearsOnError(c) ==
    /\ ~trapped
    /\ pc[c] = "ret"
    /\ pc' = [pc EXCEPT ![c] = "done"]
    /\ frame' = [frame EXCEPT ![Frame(c)] = NoLocals]
    /\ buf' = [buf EXCEPT ![c] = IF buf[c].info # 0 THEN Stale ELSE buf[c]]
    /\ UNCHANGED << dll, loaded, args, call, memo, results, trapped, ncalls >>
Return(c) ==
    /\ ~trapped
    /\ pc[c] = "ret"
    /\ pc' = [pc EXCEPT ![c] = "done"]
    /\ frame' = [frame EXCEPT ![Frame(c)] = NoLocals]
    /\ UNCHANGED << dll, loaded, args, buf, call, memo, results, trapped, ncalls >>

\* The host reads the buffers back.
HostRead(c) ==
    /\ ~trapped
    /\ pc[c] = "done"
    /\ results' = results \cup {[ctx |-> c, args |-> args[c], out |-> buf[c]]}
    /\ pc' = [pc EXCEPT ![c] = "idle"]
    /\ args' = [args EXCEPT ![c] = NoArgs]
    /\ buf' = [buf EXCEPT ![c] = Stale]
    /\ call' = [call EXCEPT ![c] = NoCall]
    /\ UNCHANGED << dll, loaded, frame, memo, trapped, ncalls >>

Next ==
    \/ R_init_linproj
    \/ \E c \in Contexts : Invoke(c)
    \/ \E c \in Contexts : InitLocals(c)
    \/ \E c \in Contexts : OverflowTrap(c)
    \/ \E c \in Contexts : Dsygvx(c)
    \/ \E c \in Contexts : Return(c)
    \/ \E c \in Contexts : HostRead(c)

Spec == Init /\ [][Next]_vars

\* ================================================================ claims

\* The shim has handed its call to the external routine in context c.
Called(c) == call[c].made

\* C1: for every call, the selection range handed to the external routine is
\* [il, n]: il is the caller's il unchanged and iu is the caller's n.
C1_RangeIsIlToN ==
    \A c \in Contexts :
        Called(c) => call[c].il = args[c].il /\ call[c].iu = args[c].n
\* The shim has returned from a call whose lower index differs from n.
C1_Witness ==
    \E c \in Contexts :
        /\ Called(c) /\ pc[c] = "done"
        /\ args[c].il # args[c].n
        /\ call[c].iu = args[c].n

\* C4: the status the caller reads after the shim returned is the value the
\* external routine wrote for that call, and so are m, w and z: the shim does
\* nothing to them, whatever the status.
C4_InfoPassesThrough ==
    \A c \in Contexts :
        pc[c] = "done" => call[c] \in DOMAIN memo /\ buf[c] = memo[call[c]]
\* The shim has returned from a call the routine ended with a nonzero status.
C4_Witness ==
    \E c \in Contexts :
        pc[c] = "done" /\ call[c] \in DOMAIN memo /\ memo[call[c]].info # 0

\* C5: once R_init_linproj has run, the module registers exactly one routine,
\* "dsygvx_c" with 11 arguments bound to dsygvx_c, and no other name resolves.
C5_OneEntryPoint ==
    loaded =>
        /\ dll.cRoutines =
               << [name |-> "dsygvx_c", fun |-> "dsygvx_c", numArgs |-> 11] >>
        /\ Resolve(dll, "dsygvx_c") =
               [found |-> TRUE, fun |-> "dsygvx_c", numArgs |-> 11,
                path |-> "registered"]
        /\ \A name \in Names \ {"dsygvx_c"} : ~Resolve(dll, name).found
\* The module is loaded and the host has entered the shim through the table.
C5_Witness == loaded /\ ncalls > 0

\* C6: every call forwards the same configuration: itype 1, jobz 'V',
\* range 'I', uplo 'U', and lda, ldb and ldz equal to the caller's n.
C6_FixedConfiguration ==
    \A c \in Contexts :
        Called(c) =>
            /\ call[c].itype = 1
            /\ call[c].jobz = "V"
            /\ call[c].range = "I"
            /\ call[c].uplo = "U"
            /\ call[c].lda = args[c].n
            /\ call[c].ldb = args[c].n
            /\ call[c].ldz = args[c].n
\* Two calls with different arguments are in flight.
C6_Witness ==
    /\ \A c \in Contexts : Called(c)
    /\ args[1].n # args[2].n
    /\ args[1].il # args[2].il

\* C7: for every call, the lwork passed to the external routine is 8 * n.
\* (8 * n is compared through its quotient, to stay within the int range.)
C7_LworkIsEightN ==
    \A c \in Contexts :
        Called(c) => call[c].lwork % 8 = 0 /\ call[c].lwork \div 8 = args[c].n

\* C9: what a call returns is a function of its own arguments: the call the
\* routine receives is the one these arguments alone determine, the buffers
\* hold the routine's answer to it, and any two calls with the same arguments
\* have read back the same outputs, however the calls were interleaved.
C9_ResultOfOwnArguments ==
    /\ \A c \in Contexts :
          pc[c] \in {"ret", "done"} =>
              /\ \E lw \in LworkOutcomes(args[c].n) :
                    ~lw.trap /\ call[c] = ForwardedCall(args[c], Locals(lw.val))
              /\ call[c] \in DOMAIN memo /\ buf[c] = memo[call[c]]
    /\ \A r1, r2 \in results : r1.args = r2.args => r1.out = r2.out
\* Both contexts have completed a call with the same arguments.
C9_Witness ==
    \E r1, r2 \in results : r1.ctx # r2.ctx /\ r1.args = r2.args

\* The external routine's argument requirements on what the shim derives.
ArgsLegal(k) ==
    LET max1n == IF k.n > 1 THEN k.n ELSE 1
    IN  /\ k.lda >= max1n /\ k.ldb >= max1n /\ k.ldz >= max1n
        /\ 1 <= k.il /\ k.il <= k.iu /\ k.iu <= k.n
        /\ k.lwork >= 1 /\ k.lwork \div 8 >= k.n

\* C10: for n >= 1 and 1 <= il <= n the arguments the shim derives meet the
\* external routine's requirements.
C10_DerivedArgsLegal ==
    \A c \in Contexts :
        (Called(c) /\ args[c].n >= 1 /\ 1 <= args[c].il /\ args[c].il <= args[c].n)
            => ArgsLegal(call[c])

====
